---- MODULE Spec2Model ----
(***************************************************************************)
(* Model of the PoseNet HTTP service of src/index.js: the start-up load of *)
(* the pose model (modelPromise), the GET / handler and the POST /pose     *)
(* handler with its three awaited steps, and the arithmetic that turns the *)
(* nose / leftWrist / rightWrist keypoints into the response.              *)
(*                                                                         *)
(* JavaScript numbers are IEEE-754 binary64.  The arithmetic of the        *)
(* handler (Math.sqrt, /, -, Math.max, >=, toFixed) is modelled bit for    *)
(* bit on 53-bit significands, held as little-endian sequences of 20-bit   *)
(* limbs because a significand does not fit the 32-bit integers of TLC.     *)
(* Keypoint coordinates are integer-valued pixels whose differences are    *)
(* below 2^23 in magnitude (a canvas is at most 32767 px a side), for      *)
(* which the differences, squares and sum inside euclideanDistance are     *)
(* exact and a distance in hundredths of a pixel is below 2^31.            *)
(***************************************************************************)
EXTENDS Integers, Sequences, FiniteSets, TLC

(***************************************************************************)
(* Unsigned multi-precision integers: NLimbs limbs of LimbBits bits each,  *)
(* least significant limb first.                                           *)
(***************************************************************************)
LimbBits == 2 * 10

LimbBase == 2^LimbBits

NLimbs == Len(<<0, 0, 0, 0>>)

Limbs == 1..NLimbs

\* a binary64 significand: 52 stored bits and the implicit leading one
SigBits == 52 + 1

BZero == <<0, 0, 0, 0>>

\* an integer n, 0 <= n < 2^31
BFromInt(n) == <<n % LimbBase, n \div LimbBase, 0, 0>>

BToInt(a) == a[1] + LimbBase * a[2]

BIsZero(a) == \A i \in Limbs : a[i] = 0

\* the carry into limb i when adding a and b (c0 is the carry into limb 1)
RECURSIVE BCarry(_, _, _, _)
BCarry(a, b, c0, i) ==
    IF i = 1 THEN c0
    ELSE (a[i - 1] + b[i - 1] + BCarry(a, b, c0, i - 1)) \div LimbBase

BAdd(a, b) ==
    LET L(i) == (a[i] + b[i] + BCarry(a, b, 0, i)) % LimbBase
    IN  <<L(1), L(2), L(3), L(4)>>

\* the borrow out of limb i - 1 when subtracting b from a
RECURSIVE BBorrow(_, _, _)
BBorrow(a, b, i) ==
    IF i = 1 THEN 0
    ELSE IF a[i - 1] - b[i - 1] - BBorrow(a, b, i - 1) < 0 THEN 1 ELSE 0

\* a - b for a >= b
BSub(a, b) ==
    LET L(i) == (a[i] - b[i] - BBorrow(a, b, i) + LimbBase) % LimbBase
    IN  <<L(1), L(2), L(3), L(4)>>

\* -1, 0, 1 as a < b, a = b, a > b, deciding from limb i downwards
RECURSIVE BCmpFrom(_, _, _)
BCmpFrom(a, b, i) ==
    IF i = 0 THEN 0
    ELSE IF a[i] < b[i] THEN -1
    ELSE IF a[i] > b[i] THEN 1
    ELSE BCmpFrom(a, b, i - 1)

BCmp(a, b) == BCmpFrom(a, b, NLimbs)

\* the carry into limb i when multiplying a by the small factor k (k < 2^11)
RECURSIVE BMulCarry(_, _, _)
BMulCarry(a, k, i) ==
    IF i = 1 THEN 0
    ELSE (a[i - 1] * k + BMulCarry(a, k, i - 1)) \div LimbBase

BMulSmall(a, k) ==
    LET L(i) == (a[i] * k + BMulCarry(a, k, i)) % LimbBase
    IN  <<L(1), L(2), L(3), L(4)>>

\* the remainder carried into limb i when dividing a by the small divisor k
\* (k < 2^11), limbs taken from the most significant one down
RECURSIVE BDivRem(_, _, _)
BDivRem(a, k, i) ==
    IF i = NLimbs THEN 0
    ELSE (BDivRem(a, k, i + 1) * LimbBase + a[i + 1]) % k

BDivSmall(a, k) ==
    LET L(i) == (BDivRem(a, k, i) * LimbBase + a[i]) \div k
    IN  <<L(1), L(2), L(3), L(4)>>

BModSmall(a, k) == (BDivRem(a, k, 1) * LimbBase + a[1]) % k

BLimb(a, i) == IF i \in Limbs THEN a[i] ELSE 0

\* a shifted right by s bits (floor of a / 2^s)
BShr(a, s) ==
    LET ls == s \div LimbBits
        bs == s % LimbBits
        L(i) == (BLimb(a, i + ls) \div 2^bs)
                + (BLimb(a, i + ls + 1) % 2^bs) * 2^(LimbBits - bs)
    IN  <<L(1), L(2), L(3), L(4)>>

\* a shifted left by s bits (the result must fit NLimbs limbs)
BShl(a, s) ==
    LET ls == s \div LimbBits
        bs == s % LimbBits
        L(i) == (BLimb(a, i - ls) % 2^(LimbBits - bs)) * 2^bs
                + (BLimb(a, i - ls - 1) \div 2^(LimbBits - bs))
    IN  <<L(1), L(2), L(3), L(4)>>

\* a * n for an integer n, 0 <= n < 2^31, taking ten bits of n at a time
\* (the result must fit NLimbs limbs)
RECURSIVE BMulInt(_, _)
BMulInt(a, n) ==
    IF n < 2^10 THEN BMulSmall(a, n)
    ELSE BAdd(BMulSmall(a, n % 2^10), BShl(BMulInt(a, n \div 2^10), 10))

BBit(a, i) == (a[(i \div LimbBits) + 1] \div 2^(i % LimbBits)) % 2

\* number of significant bits of an integer x, 0 <= x < 2^31
IntBitLen(x) == IF x = 0 THEN 0 ELSE CHOOSE k \in 1..31 : 2^(k - 1) <= x /\ x \div 2 < 2^(k - 1)

BTopLimb(a) == IF BIsZero(a) THEN 0 ELSE CHOOSE i \in Limbs : a[i] # 0 /\ \A j \in Limbs : j > i => a[j] = 0

BBitLen(a) == IF BIsZero(a) THEN 0 ELSE (BTopLimb(a) - 1) * LimbBits + IntBitLen(a[BTopLimb(a)])

BPow2(s) == BShl(BFromInt(1), s)

(***************************************************************************)
(* IEEE-754 binary64 values.  A finite value is sig * 2^exp with the sign  *)
(* in neg; a non-zero finite value is kept normalised, its significand     *)
(* having exactly SigBits bits; zero has exp = 0.  cls "inf" is Infinity.  *)
(* (NaN does not arise from well-formed keypoints and is not modelled.)    *)
(***************************************************************************)
DZero == [cls |-> "fin", neg |-> FALSE, sig |-> BZero, exp |-> 0]

DInf(n) == [cls |-> "inf", neg |-> n, sig |-> BZero, exp |-> 0]

Infinity == DInf(FALSE)

DIsZero(d) == d.cls = "fin" /\ BIsZero(d.sig)

\* Round to nearest, ties to even: the value (mant + f) * 2^e, where 0 <= f < 1
\* and sticky says whether f > 0, as a normalised binary64.
RoundNearestEven(n, mant, e, sticky) ==
    LET len == BBitLen(mant)
        t == len - SigBits
    IN  IF len = 0 THEN DZero
        ELSE IF t <= 0
        THEN [cls |-> "fin", neg |-> n, sig |-> BShl(mant, -t), exp |-> e + t]
        ELSE LET kept == BShr(mant, t)
                 guard == BBit(mant, t - 1)
                 rest == sticky \/ BShl(BShr(mant, t - 1), t - 1) # mant
                 up == guard = 1 /\ (rest \/ BBit(kept, 0) = 1)
                 r == IF up THEN BAdd(kept, BFromInt(1)) ELSE kept
             IN  IF BBitLen(r) > SigBits
                 THEN [cls |-> "fin", neg |-> n, sig |-> BShr(r, 1), exp |-> e + t + 1]
                 ELSE [cls |-> "fin", neg |-> n, sig |-> r, exp |-> e + t]

\* the binary64 of an integer below 2^31 (exact)
DFromInt(n) ==
    IF n < 0 THEN RoundNearestEven(TRUE, BFromInt(-n), 0, FALSE)
    ELSE RoundNearestEven(FALSE, BFromInt(n), 0, FALSE)

\* -1, 0, 1 as |a| < |b|, |a| = |b|, |a| > |b| for finite a, b
DCmpMag(a, b) ==
    IF BIsZero(a.sig) /\ BIsZero(b.sig) THEN 0
    ELSE IF BIsZero(a.sig) THEN -1
    ELSE IF BIsZero(b.sig) THEN 1
    ELSE IF a.exp < b.exp THEN -1
    ELSE IF a.exp > b.exp THEN 1
    ELSE BCmp(a.sig, b.sig)

\* -1, 0, 1 as a < b, a = b, a > b (+0 and -0 compare equal)
DCmp(a, b) ==
    IF a.cls = "inf" /\ b.cls = "inf"
    THEN (IF a.neg = b.neg THEN 0 ELSE IF a.neg THEN -1 ELSE 1)
    ELSE IF a.cls = "inf" THEN (IF a.neg THEN -1 ELSE 1)
    ELSE IF b.cls = "inf" THEN (IF b.neg THEN 1 ELSE -1)
    ELSE IF DIsZero(a) /\ DIsZero(b) THEN 0
    ELSE IF DIsZero(a) THEN (IF b.neg THEN 1 ELSE -1)
    ELSE IF DIsZero(b) THEN (IF a.neg THEN -1 ELSE 1)
    ELSE IF a.neg /\ ~b.neg THEN -1
    ELSE IF ~a.neg /\ b.neg THEN 1
    ELSE IF a.neg THEN -DCmpMag(a, b)
    ELSE DCmpMag(a, b)

\* x === y
DEq(a, b) == DCmp(a, b) = 0

\* x >= y
DGeq(a, b) == DCmp(a, b) >= 0

\* Math.min(x, y)
MathMin(a, b) == IF DCmp(b, a) < 0 THEN b ELSE a

\* Math.max(x, y)
MathMax(a, b) == IF DCmp(b, a) > 0 THEN b ELSE a

\* x / k for a double x and a small positive integer k (k < 2^11), correctly
\* rounded: the significand is extended by DivGuard bits before the division
\* so that the quotient keeps more than SigBits bits, and the remainder is
\* the sticky bit.
DDivSmall(x, k) ==
    IF x.cls = "inf" THEN x
    ELSE LET DivGuard == 14
             num == BShl(x.sig, DivGuard)
         IN  RoundNearestEven(x.neg, BDivSmall(num, k), x.exp - DivGuard,
                              BModSmall(num, k) # 0)

\* 1 - x for a double x >= 0, correctly rounded.  One and x are brought to
\* the exponent of x (x.exp <= 0 whenever x < 2^53), subtracted exactly, and
\* the difference is rounded.
OneMinus(x) ==
    IF x.cls = "inf" THEN DInf(~x.neg)
    ELSE IF DIsZero(x) THEN DFromInt(1)
    ELSE LET one == BPow2(-x.exp)
             c == BCmp(one, x.sig)
         IN  IF c >= 0 THEN RoundNearestEven(FALSE, BSub(one, x.sig), x.exp, FALSE)
             ELSE RoundNearestEven(TRUE, BSub(x.sig, one), x.exp, FALSE)

\* The two bits of n that digit i of the square root of n consumes: bits
\* 2i+1 and 2i of n for a digit of the integer part, none for a digit
\* below the binary point (i < 0).
SqrtPair(n, i) == IF i < 0 THEN 0 ELSE 2 * BBit(n, 2 * i + 1) + BBit(n, 2 * i)

\* One step of the binary digit-by-digit square root: st.root is the root
\* found so far and st.rem the remainder; with the next two bits of the
\* radicand brought down, the next bit of the root is 1 iff
\* 4*rem + pair >= 4*root + 1.
SqrtStep(st, pair) ==
    LET rem4 == BAdd(BMulSmall(st.rem, 4), BFromInt(pair))
        trial == BAdd(BMulSmall(st.root, 4), BFromInt(1))
    IN  IF BCmp(rem4, trial) >= 0
        THEN [root |-> BAdd(BMulSmall(st.root, 2), BFromInt(1)), rem |-> BSub(rem4, trial)]
        ELSE [root |-> BMulSmall(st.root, 2), rem |-> rem4]

\* The digits of the root from digit i down, until the root has one bit
\* more than a significand; below the binary point, once the remainder is
\* zero every further bit of the root is zero.
RECURSIVE SqrtDigits(_, _, _)
SqrtDigits(n, st, i) ==
    LET missing == SigBits + 1 - BBitLen(st.root)
    IN  IF missing = 0 THEN st
        ELSE IF i < 0 /\ BIsZero(st.rem)
        THEN [root |-> BShl(st.root, missing), rem |-> BZero]
        ELSE SqrtDigits(n, SqrtStep(st, SqrtPair(n, i)), i - 1)

\* Math.sqrt(n) for an integer-valued double n, 0 <= n < 2^53, given as a
\* multi-precision integer, correctly rounded: the p bits of the integer
\* part of the root, then fraction bits until the root has one bit more
\* than a significand, the remainder being the sticky bit.
MathSqrt(n) ==
    IF BIsZero(n) THEN DZero
    ELSE LET p == (BBitLen(n) + 1) \div 2
             st == SqrtDigits(n, [root |-> BZero, rem |-> BZero], p - 1)
         IN  RoundNearestEven(FALSE, st.root, p - (SigBits + 1), ~BIsZero(st.rem))

\* The decimal literal num/den (den a small integer), as the nearest double.
DecimalLiteral(num, den) == DDivSmall(DFromInt(num), den)

\* Number.prototype.toFixed(2) of a finite x >= 0, as the integer n of
\* hundredths its numeral denotes: n / 100 - x is as close to zero as
\* possible and, of two such n, the larger (ECMA-262 21.1.3.3).  Taken on
\* the exact value of x: floor(x * 100 + 1/2), for x * 100 < 2^31.
ToFixed2(x) ==
    IF DIsZero(x) THEN 0
    ELSE LET hundred == BMulSmall(x.sig, 100)
         IN  IF x.exp >= 0 THEN BToInt(BShl(hundred, x.exp))
             ELSE BToInt(BShr(BAdd(hundred, BPow2(-x.exp - 1)), -x.exp))

(***************************************************************************)
(* The program's data.  A keypoint of the pose model is                    *)
(* {part, position: {x, y}, score}; coordinates are integer-valued pixels  *)
(* and the score is a percentage the handler never reads.                  *)
(***************************************************************************)
Pos(px, py) == [x |-> px, y |-> py]

Keypoint(p, px, py, s) == [part |-> p, position |-> Pos(px, py), score |-> s]

\* the parts the handler keeps (line 53)
WantedParts == {"nose", "leftWrist", "rightWrist"}

\* d ** 2 for an integer d, as a multi-precision integer
Squared(d) == BMulInt(BFromInt(IF d < 0 THEN -d ELSE d), IF d < 0 THEN -d ELSE d)

\* euclideanDistance(a, b): Math.sqrt((a.x - b.x) ** 2 + (a.y - b.y) ** 2).
\* On integer-valued coordinates the differences, the squares and the sum
\* are exact in binary64 (they stay below 2^53); only Math.sqrt rounds.
euclideanDistance(a, b) ==
    MathSqrt(BAdd(Squared(a.x - b.x), Squared(a.y - b.y)))

\* kp[point.part] = point.position: the object kp with one property set
SetProperty(obj, key, val) ==
    [k \in DOMAIN obj \cup {key} |-> IF k = key THEN val ELSE obj[k]]

\* the loop of lines 51-56 from keypoint i on: a later keypoint of the same
\* part overwrites an earlier one
RECURSIVE CollectFrom(_, _, _)
CollectFrom(keypoints, i, obj) ==
    IF i > Len(keypoints) THEN obj
    ELSE IF keypoints[i].part \in WantedParts
    THEN CollectFrom(keypoints, i + 1,
                     SetProperty(obj, keypoints[i].part, keypoints[i].position))
    ELSE CollectFrom(keypoints, i + 1, obj)

\* const kp = {}; for (let point of pose.keypoints) ...
kp(keypoints) == CollectFrom(keypoints, 1, <<>>)

\* a property that is set is an object, hence truthy
Has(obj, key) == key \in DOMAIN obj

THRESHOLD_DISTANCE == 550

\* the literal 0.1, i.e. the double nearest to 1/10
ACCEPTANCE_THRESHOLD == DecimalLiteral(1, 10)

distLeft(k) ==
    IF Has(k, "leftWrist") THEN euclideanDistance(k["leftWrist"], k["nose"])
    ELSE Infinity

\* Mutation of distRight: an absent wrist counts as distance 0.
distRight_ZeroWhenAbsent(k) ==
    IF Has(k, "rightWrist") THEN euclideanDistance(k["rightWrist"], k["nose"])
    ELSE DZero

distRight(k) ==
    IF Has(k, "rightWrist") THEN euclideanDistance(k["rightWrist"], k["nose"])
    ELSE Infinity

\* Mutation of minDist: Math.max in place of Math.min.
minDist_Max(dl, dr) == MathMax(dl, dr)

minDist(dl, dr) == MathMin(dl, dr)

\* Mutation of closestHand: the branches of the conditional swapped.
closestHand_Swapped(md, dl) == IF DEq(md, dl) THEN "rightWrist" ELSE "leftWrist"

closestHand(md, dl) == IF DEq(md, dl) THEN "leftWrist" ELSE "rightWrist"

confidenceDecimal(md) == MathMax(DZero, OneMinus(DDivSmall(md, THRESHOLD_DISTANCE)))

accepted(conf) == DGeq(conf, ACCEPTANCE_THRESHOLD)

\* parseFloat(minDist.toFixed(2)).  toFixed(2) of Infinity is "Infinity",
\* which parseFloat reads back as Infinity; of a finite value it is the
\* numeral of n hundredths, which parseFloat reads as the double nearest to
\* n / 100.  That double is written here by n, its count of hundredths: the
\* numerals of distinct n denote distinct doubles.
reportedDistance(md) ==
    IF md.cls = "inf" THEN [num |-> "Infinity", hundredths |-> 0]
    ELSE [num |-> "finite", hundredths |-> ToFixed2(md)]

\* lines 62-79: the result object
result(k) ==
    LET dl == distLeft(k)
        dr == distRight(k)
        md == minDist(dl, dr)
    IN  [closestHand |-> closestHand(md, dl),
         distance |-> reportedDistance(md),
         accepted |-> accepted(confidenceDecimal(md))]

\* JSON.stringify of a number: a non-finite number is written null, a
\* finite one by the shortest numeral that reads back as it, which for the
\* double nearest to n / 100 is the two-decimal numeral itself.
JsonNumber(v) ==
    IF v.num = "finite" THEN [json |-> "number", hundredths |-> v.hundredths]
    ELSE [json |-> "null", hundredths |-> 0]

\* res.json(result): status 200 unless set, the body serialised
JsonResult(r) ==
    [status |-> 200,
     body |-> [closestHand |-> r.closestHand,
               distance |-> JsonNumber(r.distance),
               accepted |-> r.accepted]]

\* res.status(code).json({ error: message })
ErrorResponse(code, message) == [status |-> code, body |-> [error |-> message]]

NoResponse == [status |-> 0, body |-> [error |-> ""]]

\* What net.estimateSinglePose settles with: it rejects ("rejected"), it
\* resolves with a value whose keypoints cannot be iterated ("malformed":
\* the for-of of line 52 throws), or it resolves with a pose.
Rejected == [kind |-> "rejected", keypoints |-> <<>>]

Malformed == [kind |-> "malformed", keypoints |-> <<>>]

PoseOf(keypoints) == [kind |-> "pose", keypoints |-> keypoints]

NoPose == [kind |-> "none", keypoints |-> <<>>]

\* Mutation of PoseResponse: a missing nose is thrown like any other failure
\* and reaches the catch.
PoseResponse_NoseThrows(outcome) ==
    IF outcome.kind # "pose" THEN ErrorResponse(500, "Pose estimation failed")
    ELSE LET k == kp(outcome.keypoints)
         IN  IF ~Has(k, "nose") THEN ErrorResponse(500, "Pose estimation failed")
             ELSE JsonResult(result(k))

\* Lines 46-85 once the awaited estimateSinglePose has settled: the
\* response the handler sends.
PoseResponse(outcome) ==
    IF outcome.kind # "pose" THEN ErrorResponse(500, "Pose estimation failed")
    ELSE LET k == kp(outcome.keypoints)
         IN  IF ~Has(k, "nose") THEN ErrorResponse(400, "Nose not detected")
             ELSE JsonResult(result(k))

(***************************************************************************)
(* Bounds of the model and the inputs it draws.                            *)
(***************************************************************************)
\* concurrent POST /pose requests
NReq == 2

\* how far around the 495 px boundary, and from 0, the wrist grid reaches
Near == 1

Req == 1..NReq

\* Poses the estimator returns to the concurrent requests: no nose (alone or
\* with wrists), no wrist, a wrist at exactly 495 px, one at sqrt(245029) =
\* 495.004 px, a tie, the tie again among other parts and with other scores,
\* a right wrist that is strictly nearer, and both wrists tens of thousands
\* of pixels away.
Poses ==
    { <<>>,
      <<Keypoint("leftWrist", 10, 0, 90)>>,
      <<Keypoint("leftEye", 5, 5, 90), Keypoint("leftWrist", 10, 0, 90),
        Keypoint("rightWrist", 0, 10, 90)>>,
      <<Keypoint("nose", 0, 0, 90)>>,
      <<Keypoint("nose", 0, 0, 90), Keypoint("leftWrist", 495, 0, 90)>>,
      <<Keypoint("nose", 0, 0, 90), Keypoint("rightWrist", 495, 2, 90)>>,
      <<Keypoint("nose", 0, 0, 90), Keypoint("leftWrist", 10, 0, 90),
        Keypoint("rightWrist", 0, 10, 90)>>,
      <<Keypoint("nose", 0, 0, 20), Keypoint("leftEye", 7, 7, 99),
        Keypoint("leftWrist", 10, 0, 5), Keypoint("rightWrist", 0, 10, 60),
        Keypoint("rightHip", 0, 0, 80)>>,
      <<Keypoint("nose", 100, 100, 90), Keypoint("leftWrist", 130, 140, 90),
        Keypoint("rightWrist", 120, 100, 90)>>,
      <<Keypoint("nose", 0, 0, 90), Keypoint("leftWrist", 40000, 0, 90),
        Keypoint("rightWrist", 0, 33000, 90)>> }

Outcomes == {Rejected, Malformed} \cup {PoseOf(k) : k \in Poses}

\* The grid of the arithmetic: the nose at one of two places, each wrist
\* absent or on a grid that holds ties, 3-4-5 triangles, the 495 px boundary
\* (on an axis and as 297-396-495) with its neighbours, and distances beyond
\* THRESHOLD_DISTANCE.
WristXs == {0, 3, 10, 297, 600} \cup ((495 - Near)..(495 + Near))

WristYs == {4, 10, 396} \cup (0..Near)

NosePositions == {Pos(0, 0), Pos(3, 4)}

WristPositions == {Pos(px, py) : px \in WristXs, py \in WristYs}

Absent == Pos(-1, -1)

WristChoices == WristPositions \cup {Absent}

Entry(p, at) == IF at = Absent THEN <<>> ELSE <<[part |-> p, position |-> at, score |-> 90]>>

GridPoses ==
    { Entry("nose", n) \o Entry("leftWrist", l) \o Entry("rightWrist", r) :
        n \in NosePositions, l \in WristChoices, r \in WristChoices }

(***************************************************************************)
(* State.                                                                  *)
(***************************************************************************)
VARIABLES
    alive,          \* whether the process runs
    modelPromise,   \* "pending", "fulfilled" or "rejected" (lines 11-21)
    loadCalls,      \* calls of posenet.load made so far
    model,          \* the instance modelPromise resolved with (0: none); an
                    \* instance is named by the number of the load that made it
    rootReplies,    \* whether GET / has been answered
    pc,             \* per request: where its handler stands
    hasFile,        \* per request: whether req.file is set (multer found `image`)
    net,            \* per request: the instance `await modelPromise` gave it
    steps,          \* per request: the awaited operations it has begun, in order
    pose,           \* per request: what estimateSinglePose settled with
    response        \* per request: the response sent

vars == <<alive, modelPromise, loadCalls, model, rootReplies, pc, hasFile, net, steps, pose, response>>

\* After the module has been evaluated: the async function of lines 11-21 has
\* run up to its await, so posenet.load has been called once and modelPromise
\* is pending; no request has arrived.
Init ==
    /\ alive = TRUE
    /\ modelPromise = "pending"
    /\ loadCalls = 1
    /\ model = 0
    /\ rootReplies = FALSE
    /\ pc = [r \in Req |-> "idle"]
    /\ hasFile = [r \in Req |-> FALSE]
    /\ net = [r \in Req |-> 0]
    /\ steps = [r \in Req |-> <<>>]
    /\ pose = [r \in Req |-> NoPose]
    /\ response = [r \in Req |-> NoResponse]

\* res.status(..).json(..) / res.json(..) followed by the handler's return
Send(r, resp) ==
    /\ response' = [response EXCEPT ![r] = resp]
    /\ pc' = [pc EXCEPT ![r] = "done"]

\* lines 13-20: posenet.load resolves, and modelPromise with it
ModelLoaded ==
    /\ alive = TRUE
    /\ modelPromise = "pending"
    /\ modelPromise' = "fulfilled"
    /\ model' = loadCalls
    /\ UNCHANGED <<alive, loadCalls, rootReplies, pc, hasFile, net, steps, pose, response>>

\* line 13: posenet.load rejects, and modelPromise with it.  modelPromise
\* has no rejection handler of its own (lines 11-21): if no request is
\* suspended at `await modelPromise` the rejection is unhandled, and the
\* runtime then either ends the process (exits) or only warns.
ModelLoadFailed(exits) ==
    /\ alive = TRUE
    /\ modelPromise = "pending"
    /\ modelPromise' = "rejected"
    /\ alive' = ((\E r \in Req : pc[r] = "awaitModel") \/ ~exits)
    /\ UNCHANGED <<loadCalls, model, rootReplies, pc, hasFile, net, steps, pose, response>>

\* lines 23-25: GET /
GetRoot ==
    /\ alive = TRUE
    /\ ~rootReplies
    /\ rootReplies' = TRUE
    /\ UNCHANGED <<alive, modelPromise, loadCalls, model, pc, hasFile, net, steps, pose, response>>

\* Mutation of PostPose: the handler awaits the model before it looks at
\* req.file.
PostPose_AwaitFirst(r, file) ==
    /\ alive = TRUE
    /\ pc[r] = "idle"
    /\ hasFile' = [hasFile EXCEPT ![r] = file]
    /\ pc' = [pc EXCEPT ![r] = "awaitModel"]
    /\ steps' = [steps EXCEPT ![r] = Append(@, "modelPromise")]
    /\ UNCHANGED <<alive, modelPromise, loadCalls, model, rootReplies, net, pose, response>>

\* lines 33-39: POST /pose arrives, with or without req.file.  Without it the
\* handler answers 400 and returns; with it the handler runs to
\* `await modelPromise`.
PostPose(r, file) ==
    /\ alive = TRUE
    /\ pc[r] = "idle"
    /\ hasFile' = [hasFile EXCEPT ![r] = file]
    /\ IF ~file
       THEN /\ Send(r, ErrorResponse(400, "No image uploaded"))
            /\ UNCHANGED steps
       ELSE /\ pc' = [pc EXCEPT ![r] = "awaitModel"]
            /\ steps' = [steps EXCEPT ![r] = Append(@, "modelPromise")]
            /\ UNCHANGED response
    /\ UNCHANGED <<alive, modelPromise, loadCalls, model, rootReplies, net, pose>>

\* Mutation of ModelAwaited: the handler loads a model of its own instead of
\* awaiting the shared promise.
ModelAwaited_Reload(r) ==
    /\ alive = TRUE
    /\ pc[r] = "awaitModel"
    /\ loadCalls' = loadCalls + 1
    /\ net' = [net EXCEPT ![r] = loadCalls + 1]
    /\ pc' = [pc EXCEPT ![r] = "awaitImage"]
    /\ steps' = [steps EXCEPT ![r] = Append(@, "loadImage")]
    /\ UNCHANGED <<alive, modelPromise, model, rootReplies, hasFile, pose, response>>

\* lines 39-40: the handler resumes once modelPromise has settled.  Fulfilled:
\* net is the instance and loadImage is called.  Rejected: the await throws
\* and the catch of lines 82-85 answers 500.
ModelAwaited(r) ==
    /\ alive = TRUE
    /\ pc[r] = "awaitModel"
    /\ modelPromise # "pending"
    /\ IF modelPromise = "fulfilled"
       THEN /\ net' = [net EXCEPT ![r] = model]
            /\ pc' = [pc EXCEPT ![r] = "awaitImage"]
            /\ steps' = [steps EXCEPT ![r] = Append(@, "loadImage")]
            /\ UNCHANGED response
       ELSE /\ Send(r, ErrorResponse(500, "Pose estimation failed"))
            /\ UNCHANGED <<net, steps>>
    /\ UNCHANGED <<alive, modelPromise, loadCalls, model, rootReplies, hasFile, pose>>

\* Mutation of ImageLoaded: a decode failure is answered with its own message.
ImageLoaded_LeakDetail(r, decoded) ==
    /\ alive = TRUE
    /\ pc[r] = "awaitImage"
    /\ IF decoded
       THEN /\ pc' = [pc EXCEPT ![r] = "awaitPose"]
            /\ steps' = [steps EXCEPT ![r] = Append(@, "estimateSinglePose")]
            /\ UNCHANGED response
       ELSE /\ Send(r, ErrorResponse(500, "Unsupported image type"))
            /\ UNCHANGED steps
    /\ UNCHANGED <<alive, modelPromise, loadCalls, model, rootReplies, hasFile, net, pose>>

\* lines 40-48: loadImage settles.  Decoded: the canvas is drawn and
\* net.estimateSinglePose is called.  Otherwise (loadImage rejects, or the
\* canvas calls throw) the catch answers 500.
ImageLoaded(r, decoded) ==
    /\ alive = TRUE
    /\ pc[r] = "awaitImage"
    /\ IF decoded
       THEN /\ pc' = [pc EXCEPT ![r] = "awaitPose"]
            /\ steps' = [steps EXCEPT ![r] = Append(@, "estimateSinglePose")]
            /\ UNCHANGED response
       ELSE /\ Send(r, ErrorResponse(500, "Pose estimation failed"))
            /\ UNCHANGED steps
    /\ UNCHANGED <<alive, modelPromise, loadCalls, model, rootReplies, hasFile, net, pose>>

\* Mutation of PoseEstimated: kp is one object shared by all requests, so the
\* keypoints of the poses already handled are still in it.
RECURSIVE EarlierKeypoints(_)
EarlierKeypoints(n) ==
    IF n = 0 THEN <<>> ELSE EarlierKeypoints(n - 1) \o pose[n].keypoints

PoseEstimated_SharedKp(r, outcome) ==
    /\ alive = TRUE
    /\ pc[r] = "awaitPose"
    /\ pose' = [pose EXCEPT ![r] = outcome]
    /\ Send(r, IF outcome.kind # "pose" THEN PoseResponse(outcome)
               ELSE PoseResponse(PoseOf(EarlierKeypoints(NReq) \o outcome.keypoints)))
    /\ UNCHANGED <<alive, modelPromise, loadCalls, model, rootReplies, hasFile, net, steps>>

\* lines 46-85: estimateSinglePose settles with outcome and the handler runs
\* to its end
PoseEstimated(r, outcome) ==
    /\ alive = TRUE
    /\ pc[r] = "awaitPose"
    /\ pose' = [pose EXCEPT ![r] = outcome]
    /\ Send(r, PoseResponse(outcome))
    /\ UNCHANGED <<alive, modelPromise, loadCalls, model, rootReplies, hasFile, net, steps>>

Next ==
    \/ ModelLoaded
    \/ \E exits \in BOOLEAN : ModelLoadFailed(exits)
    \/ GetRoot
    \/ \E r \in Req, file \in BOOLEAN : PostPose(r, file)
    \/ \E r \in Req : ModelAwaited(r)
    \/ \E r \in Req, decoded \in BOOLEAN : ImageLoaded(r, decoded)
    \/ \E r \in Req, outcome \in Outcomes : PoseEstimated(r, outcome)

Spec == Init /\ [][Next]_vars

(***************************************************************************)
(* The arithmetic on its own: request 1 has reached the await of           *)
(* estimateSinglePose (the model loaded, the request received with a file, *)
(* its image decoded), and the estimator settles with a pose of the grid.  *)
(***************************************************************************)
InitDecide ==
    /\ alive = TRUE
    /\ modelPromise = "fulfilled"
    /\ loadCalls = 1
    /\ model = 1
    /\ rootReplies = FALSE
    /\ pc = [r \in Req |-> IF r = 1 THEN "awaitPose" ELSE "idle"]
    /\ hasFile = [r \in Req |-> r = 1]
    /\ net = [r \in Req |-> IF r = 1 THEN 1 ELSE 0]
    /\ steps = [r \in Req |-> IF r = 1 THEN <<"modelPromise", "loadImage", "estimateSinglePose">>
                              ELSE <<>>]
    /\ pose = [r \in Req |-> NoPose]
    /\ response = [r \in Req |-> NoResponse]

NextDecide == \E k \in GridPoses : PoseEstimated(1, PoseOf(k))

SpecDecide == InitDecide /\ [][NextDecide]_vars

(***************************************************************************)
(* What the claims speak of, stated on the estimator's keypoint list and   *)
(* in exact integer arithmetic, independently of the handler's code.       *)
(***************************************************************************)
PartIn(keypoints, p) == \E i \in 1..Len(keypoints) : keypoints[i].part = p

PartAt(keypoints, p) ==
    keypoints[CHOOSE i \in 1..Len(keypoints) : keypoints[i].part = p].position

\* squared Euclidean distance
SqDist(a, b) == (a.x - b.x) * (a.x - b.x) + (a.y - b.y) * (a.y - b.y)

WristSq(keypoints, w) == SqDist(PartAt(keypoints, w), PartAt(keypoints, "nose"))

Wrists == {"leftWrist", "rightWrist"}

PresentWrists(keypoints) == {w \in Wrists : PartIn(keypoints, w)}

\* the square of the minimum distance between the nose and the present wrists
MinSq(keypoints) ==
    LET ws == PresentWrists(keypoints)
        w == CHOOSE v \in ws : \A u \in ws : WristSq(keypoints, v) <= WristSq(keypoints, u)
    IN  WristSq(keypoints, w)

\* floor of the square root of an integer n, 0 <= n < 2^31, one bit of the
\* root at a time from bit b down (t * t <= n written t <= n \div t)
RECURSIVE ISqrtFrom(_, _, _)
ISqrtFrom(n, root, b) ==
    IF b < 0 THEN root
    ELSE IF root + 2^b <= n \div (root + 2^b) THEN ISqrtFrom(n, root + 2^b, b - 1)
    ELSE ISqrtFrom(n, root, b - 1)

ISqrt(n) == ISqrtFrom(n, 0, 15)

\* n hundredths is sqrt(sq) rounded to two decimals:
\* (n - 1/2) / 100 <= sqrt(sq) < (n + 1/2) / 100.  With s the integer part of
\* the root, rem = sq - s^2 and n = 100 s + h, this is
\* 400 s (2h - 1) + (2h - 1)^2 <= 40000 rem < 400 s (2h + 1) + (2h + 1)^2
\* (the left inequality holding outright when n = 0).
RoundsTo(n, sq) ==
    LET s == ISqrt(sq)
        lo == 2 * (n - 100 * s) - 1
        hi == lo + 2
    IN  /\ n - 100 * s \in 0..100
        /\ 200 * s + lo < 0 \/ 400 * s * lo + lo * lo <= 40000 * (sq - s * s)
        /\ 40000 * (sq - s * s) < 400 * s * hi + hi * hi

\* the handler of request r has run to its end on a pose of the estimator
Judged(r) == pc[r] = "done" /\ pose[r].kind = "pose"

\* ... a pose with a nose and at least one wrist
Measured(r) ==
    /\ Judged(r)
    /\ PartIn(pose[r].keypoints, "nose")
    /\ PresentWrists(pose[r].keypoints) # {}

IsJudgment(resp) ==
    resp.status = 200 /\ DOMAIN resp.body = {"closestHand", "distance", "accepted"}

InSteps(r, step) == \E i \in 1..Len(steps[r]) : steps[r][i] = step

\* C1: whenever the estimator's keypoint list holds no nose entry, the response
\* is 400 {"error": "Nose not detected"} and carries no judgment, whether or
\* not leftWrist and rightWrist are in the list.
C1_NoNoseIs400 ==
    \A r \in Req :
        (Judged(r) /\ ~PartIn(pose[r].keypoints, "nose")) =>
            /\ response[r].status = 400
            /\ DOMAIN response[r].body = {"error"}
            /\ response[r].body.error = "Nose not detected"

C1_Witness ==
    \E r \in Req :
        /\ Judged(r)
        /\ ~PartIn(pose[r].keypoints, "nose")
        /\ PresentWrists(pose[r].keypoints) = Wrists
        /\ response[r].status = 400

\* C2: a request without an uploaded file is answered 400
\* {"error": "No image uploaded"} at once: it never awaits the model, decodes
\* an image or invokes pose estimation, whatever the state of the model load.
C2_NoFileIs400 ==
    \A r \in Req :
        (pc[r] # "idle" /\ ~hasFile[r]) =>
            /\ pc[r] = "done"
            /\ response[r].status = 400
            /\ DOMAIN response[r].body = {"error"}
            /\ response[r].body.error = "No image uploaded"
            /\ steps[r] = <<>>
            /\ net[r] = 0
            /\ pose[r].kind = "none"

C2_Witness ==
    \E r, q \in Req :
        /\ pc[r] = "done" /\ ~hasFile[r] /\ response[r].status = 400
        /\ modelPromise = "pending"
        /\ pc[q] = "awaitModel"

\* C3: a request with a file that fails for any reason other than a missing
\* nose (the model load rejected, the image not decoded, the inference
\* rejected or its value unusable) is answered 500 with the one body
\* {"error": "Pose estimation failed"}; no other 500 body is ever sent.
C3_FailureIs500 ==
    \A r \in Req :
        /\ (pc[r] = "done" /\ hasFile[r] /\ pose[r].kind # "pose") =>
              /\ response[r].status = 500
              /\ DOMAIN response[r].body = {"error"}
              /\ response[r].body.error = "Pose estimation failed"
        /\ response[r].status = 500 =>
              /\ DOMAIN response[r].body = {"error"}
              /\ response[r].body.error = "Pose estimation failed"

C3_Witness ==
    \E r, q \in Req :
        /\ pc[r] = "done" /\ steps[r] = <<"modelPromise", "loadImage">>
        /\ response[r].status = 500
        /\ pc[q] = "done" /\ pose[q].kind = "malformed"
        /\ response[q].status = 500

\* C4: the threshold is inclusive: accepted is true exactly when the minimum
\* distance is at most 495 px, so at exactly 495 px it is true.
C4_InclusiveAt495 ==
    \A r \in Req :
        Measured(r) =>
            /\ IsJudgment(response[r])
            /\ response[r].body.accepted = (MinSq(pose[r].keypoints) <= 495 * 495)

\* What the code does at the threshold: 495/550 rounds up to the double just
\* above 0.9, 1 minus it is 0.09999999999999998 < 0.1, and accepted is true
\* exactly when the minimum distance is strictly below 495 px.
AcceptedBelow495 ==
    \A r \in Req :
        Measured(r) =>
            response[r].body.accepted = (MinSq(pose[r].keypoints) < 495 * 495)

\* C5 as stated: the reported distance is the minimum Euclidean distance
\* itself.
C5_DistanceIsExactMinimum ==
    \A r \in Req :
        Measured(r) =>
            /\ IsJudgment(response[r])
            /\ response[r].body.distance.json = "number"
            /\ response[r].body.distance.hundredths % 100 = 0
            /\ (response[r].body.distance.hundredths \div 100)
                 * (response[r].body.distance.hundredths \div 100) = MinSq(pose[r].keypoints)

\* C5, amended: for a pose with a nose and at least one wrist the reported
\* distance is the minimum Euclidean distance between the nose and the
\* present wrists rounded to two decimals, and closestHand names a present
\* wrist at that minimum distance (so never an absent one).
C5_DistanceIsRoundedMinimum ==
    \A r \in Req :
        Measured(r) =>
            /\ IsJudgment(response[r])
            /\ response[r].body.distance.json = "number"
            /\ RoundsTo(response[r].body.distance.hundredths, MinSq(pose[r].keypoints))
            /\ response[r].body.closestHand \in PresentWrists(pose[r].keypoints)
            /\ WristSq(pose[r].keypoints, response[r].body.closestHand) = MinSq(pose[r].keypoints)

C5_Witness ==
    \E r \in Req :
        /\ Measured(r)
        /\ PresentWrists(pose[r].keypoints) = Wrists
        /\ WristSq(pose[r].keypoints, "rightWrist") < WristSq(pose[r].keypoints, "leftWrist")
        /\ response[r].body.closestHand = "rightWrist"
        /\ response[r].body.distance.hundredths % 100 # 0

\* C6: when both wrists are equally far from the nose closestHand is
\* leftWrist; rightWrist is reported only when it is present and strictly
\* nearer than the left wrist (or the left wrist is absent).
C6_TieGoesLeft ==
    \A r \in Req :
        (Judged(r) /\ PartIn(pose[r].keypoints, "nose")) =>
            /\ IsJudgment(response[r])
            /\ (/\ PresentWrists(pose[r].keypoints) = Wrists
                /\ WristSq(pose[r].keypoints, "leftWrist") = WristSq(pose[r].keypoints, "rightWrist"))
                  => response[r].body.closestHand = "leftWrist"
            /\ response[r].body.closestHand = "rightWrist" =>
                  /\ PartIn(pose[r].keypoints, "rightWrist")
                  /\ PartIn(pose[r].keypoints, "leftWrist") =>
                        WristSq(pose[r].keypoints, "rightWrist") < WristSq(pose[r].keypoints, "leftWrist")

C6_Witness ==
    \E r \in Req :
        /\ Measured(r)
        /\ PresentWrists(pose[r].keypoints) = Wrists
        /\ PartAt(pose[r].keypoints, "leftWrist") # PartAt(pose[r].keypoints, "rightWrist")
        /\ WristSq(pose[r].keypoints, "leftWrist") = WristSq(pose[r].keypoints, "rightWrist")
        /\ WristSq(pose[r].keypoints, "leftWrist") > 0
        /\ response[r].body.closestHand = "leftWrist"

\* C7: a nose without any wrist is not a failure: the response is 200 with
\* closestHand leftWrist, accepted false and the infinite distance written as
\* JSON null.
C7_NoWristIs200 ==
    \A r \in Req :
        (/\ Judged(r)
         /\ PartIn(pose[r].keypoints, "nose")
         /\ PresentWrists(pose[r].keypoints) = {}) =>
            /\ IsJudgment(response[r])
            /\ response[r].body.closestHand = "leftWrist"
            /\ response[r].body.distance.json = "null"
            /\ response[r].body.accepted = FALSE

C7_Witness ==
    \E r \in Req :
        /\ Judged(r)
        /\ PartIn(pose[r].keypoints, "nose")
        /\ PresentWrists(pose[r].keypoints) = {}
        /\ response[r].status = 200

\* C8: two poses whose minimum distances round to the same two decimals and
\* lie on opposite sides of the 495 px threshold (one at most 495, such as
\* 495.0, the other above, such as 495.004) get the same reported distance
\* and different accepted values.  (The one two-decimal value that distances
\* on both sides of 495 can share is 495.00.)
C8_SameDistanceOtherVerdict ==
    \A r, q \in Req :
        (/\ Measured(r) /\ Measured(q)
         /\ MinSq(pose[r].keypoints) <= 495 * 495
         /\ MinSq(pose[q].keypoints) > 495 * 495
         /\ RoundsTo(49500, MinSq(pose[r].keypoints))
         /\ RoundsTo(49500, MinSq(pose[q].keypoints))) =>
            /\ response[r].body.distance = response[q].body.distance
            /\ response[r].body.accepted # response[q].body.accepted

\* C9: posenet.load is called once, at start-up; a request starts decoding
\* and inference only after that load has resolved, and every request is
\* given the one instance it resolved with.
C9_OneSharedModel ==
    /\ loadCalls = 1
    /\ \A r \in Req :
          (InSteps(r, "loadImage") \/ InSteps(r, "estimateSinglePose") \/ pose[r].kind # "none") =>
              /\ modelPromise = "fulfilled"
              /\ net[r] = 1
              /\ net[r] = model

C9_Witness ==
    \E r, q \in Req :
        /\ r # q
        /\ pc[r] = "awaitPose" /\ net[r] = 1
        /\ Judged(q) /\ net[q] = 1

\* C10: the response to a pose depends only on where its nose, leftWrist and
\* rightWrist are: two requests whose poses agree on which of the three are
\* present and on their positions get identical responses, whatever else the
\* keypoint lists hold, whatever the scores, and however the handlers
\* interleave; and what a response says is fixed by the positions of its own
\* pose, never by the pose of another request.
SameTriple(k1, k2) ==
    \A p \in WantedParts :
        /\ PartIn(k1, p) <=> PartIn(k2, p)
        /\ PartIn(k1, p) => PartAt(k1, p) = PartAt(k2, p)

\* what the three positions of a keypoint list fix in its response: the
\* status, the hand named and the distance reported
FromOwnPositions(keypoints, resp) ==
    IF ~PartIn(keypoints, "nose")
    THEN resp.status = 400 /\ DOMAIN resp.body = {"error"}
    ELSE /\ IsJudgment(resp)
         /\ resp.body.closestHand =
               (IF /\ PartIn(keypoints, "rightWrist")
                   /\ PartIn(keypoints, "leftWrist") =>
                         WristSq(keypoints, "rightWrist") < WristSq(keypoints, "leftWrist")
                THEN "rightWrist" ELSE "leftWrist")
         /\ IF PresentWrists(keypoints) = {} THEN resp.body.distance.json = "null"
            ELSE /\ resp.body.distance.json = "number"
                 /\ RoundsTo(resp.body.distance.hundredths, MinSq(keypoints))

C10_OwnKeypointsDecide ==
    \A r, q \in Req :
        /\ Judged(r) => FromOwnPositions(pose[r].keypoints, response[r])
        /\ (Judged(r) /\ Judged(q) /\ SameTriple(pose[r].keypoints, pose[q].keypoints)) =>
              response[r] = response[q]

C10_Witness ==
    \E r, q \in Req :
        /\ Judged(r) /\ Judged(q)
        /\ pose[r] # pose[q]
        /\ SameTriple(pose[r].keypoints, pose[q].keypoints)
        /\ Len(pose[r].keypoints) # Len(pose[q].keypoints)
        /\ response[r].status = 200
        /\ response[r] = response[q]

====
